---------------------------- MODULE Spec2Model ----------------------------
(***************************************************************************)
(* mkmetalink (src/main.go): the piece-size heuristic, the streaming       *)
(* MultiHasher and the run of main() that feeds it and writes the two      *)
(* output documents.                                                       *)
(*                                                                         *)
(* Bytes.  A byte read from a file is modelled by its identity             *)
(* <<relPath, offset>>, so every byte of a run is distinct and a digest    *)
(* can be traced back to the exact byte range it covers.                   *)
(*                                                                         *)
(* Digests.  A running hash (hash.Hash) is the sequence of bytes written   *)
(* to it since its last Reset; Sum is the pair of the algorithm and that   *)
(* sequence (a collision-free hash).                                       *)
(*                                                                         *)
(* Sizes.  main() builds the hasher with calculatePieceSize(total), at     *)
(* least 256 KiB.  MultiHasher reads pieceSize only in subtractions and    *)
(* comparisons with byte counts, so the run is checked with piece sizes    *)
(* 1..MaxPiece and files of up to MaxFileLen bytes; calculatePieceSize     *)
(* itself is checked, with its real constants, under SpecPiece.            *)
(*                                                                         *)
(* Specifications.  Spec is the run of main(); SpecPiece applies           *)
(* calculatePieceSize to one total; SpecHasher makes the calls of a        *)
(* MultiHasher in any order, with Write run one loop iteration per step;   *)
(* SpecUrls builds the names and URLs of the metalink entries from         *)
(* mirrors and paths spelled out in characters.                            *)
(***************************************************************************)
EXTENDS Integers, Sequences, FiniteSets, TLC

VARIABLES
  pc,          \* where main() stands
  files,       \* main.files: the enumeration, a sequence of FileInfo
  isDir,       \* info.IsDir()
  signer,      \* CLI.Sign ("" when not given)
  mh,          \* the MultiHasher
  idx,         \* 1-based position of the per-file loop of main()
  fed,         \* history: fed[i] = the bytes main() passed to Write for file i
  atStart,     \* history: the hasher as StartFile of the current file left it
  calls,       \* history: the hasher calls made (consecutive Writes kept once)
  writes,      \* history: Write calls made for the file being read
  meta,        \* main.meta, the Metalink document in memory
  tor,         \* main.tor, the Torrent in memory
  torrentOut,  \* the .torrent file on disk
  metaOut,     \* the .meta4 file on disk
  gpgRuns,     \* number of times the gpg command was run
  failure,     \* which log.Fatalf ended the run ("" when none)
  total,       \* SpecPiece: the argument of calculatePieceSize
  piece,       \* SpecPiece: its result (0 before the call)
  hcall,       \* SpecHasher: the hasher call in progress, or the last one made
  before,      \* SpecHasher: the hasher as it was when that call was entered
  ncalls,      \* SpecHasher: number of calls made
  mirrors,     \* SpecUrls: CLI.Mirrors, each a string spelled out in characters
  pathSep      \* SpecUrls: os.PathSeparator of the platform

vars == <<pc, files, isDir, signer, mh, idx, fed, atStart, calls, writes,
          meta, tor, torrentOut, metaOut, gpgRuns, failure, total, piece,
          hcall, before, ncalls, mirrors, pathSep>>

\* the variables of SpecHasher other than mh
callVars == <<hcall, before, ncalls>>

\* the variables of SpecUrls other than isDir, files and meta
urlVars == <<mirrors, pathSep>>

runVars == <<pc, files, isDir, signer, mh, idx, fed, atStart, calls, writes,
             meta, tor, torrentOut, metaOut, gpgRuns, failure>>

-----------------------------------------------------------------------------
(* Bounds of the model. *)

MaxFiles == 2      \* files enumerated in a run
MaxFileLen == 3    \* bytes read from one file
MaxSize == 1       \* size the enumeration recorded for a file (it may be stale)
MaxChunk == 3      \* bytes returned by one f.Read (CHUNK_SIZE in the code)
MaxPiece == 2      \* piece sizes 1..MaxPiece
MaxCalls == 4      \* SpecHasher: calls made on one hasher
MaxMirrors == 2    \* SpecUrls: mirrors given on the command line
MaxTrail == 2      \* SpecUrls: slashes a mirror ends with
MaxLog == 30       \* calculatePieceSize is applied to totals below 2^(MaxLog+10)

-----------------------------------------------------------------------------
(* Program constants, src/main.go:24-30. *)

P_MIN == 262144
P_CAP == 4194304
P_MAX == 67108864
N_THRESHOLD == 7500

\* math.Max
Max(a, b) == IF a > b THEN a ELSE b

-----------------------------------------------------------------------------
(***************************************************************************)
(* calculatePieceSize, src/main.go:32-61.                                  *)
(*                                                                         *)
(* The totals that reach the piece-count rule exceed 7500 * 4 MiB, more    *)
(* than the model checker's 32-bit integers hold, so an int64 total is     *)
(* the record [kib, rem] standing for kib * 1024 + rem bytes, with rem in  *)
(* 0..1023 (a negative total has kib < 0).  Every threshold the function   *)
(* compares the total with is a multiple of 1024, which makes the three    *)
(* float64 expressions below exact on this representation.  The float64    *)
(* roundings of math.Log2 and of the divisions do not change any floor     *)
(* taken in the range where the result depends on it (totals below 2^41:   *)
(* the nearest total below a threshold differs from it by more than        *)
(* 2^-42 relatively, far above the 2^-53 precision).                       *)
(***************************************************************************)

Bytes(kib, rem) == [kib |-> kib, rem |-> rem]

\* floor(log2 n) of an integer n >= 1
RECURSIVE FloorLog2(_)
FloorLog2(n) == IF n <= 1 THEN 0 ELSE 1 + FloorLog2(n \div 2)

\* math.Pow(2, e) as far as int64(math.Max(P_MIN, .)) and int64(.) see it: a
\* negative exponent gives a fraction below 1
Pow2(e) == IF e < 0 THEN 0 ELSE 2 ^ e

\* total <= 0
TotalLeqZero(t) == t.kib < 0 \/ (t.kib = 0 /\ t.rem = 0)

\* math.Floor(math.Log2(float64(total)) - 10), for total >= 1
LogExp(t) ==
  (IF t.kib > 0 THEN 10 + FloorLog2(t.kib) ELSE FloorLog2(t.rem)) - 10

\* float64(total) / float64(current) > n, for current a multiple of 1024
PiecesExceed(t, current, n) ==
  LET c == current \div 1024
  IN  t.kib > n * c \/ (t.kib = n * c /\ t.rem > 0)

\* fault: the exponent of stepped is one too low
LogTargetLow(t, n) == 9 + FloorLog2(t.kib \div n)

\* math.Floor(math.Log2(float64(total) / n)), for total >= 1024 * n
LogTarget(t, n) == 10 + FloorLog2(t.kib \div n)

\* fault: stepped is the target itself, int64(float64(total) / N_THRESHOLD)
SteppedUnrounded(t) ==
  (t.kib \div N_THRESHOLD) * 1024
    + (((t.kib % N_THRESHOLD) * 1024 + t.rem) \div N_THRESHOLD)

\* lines 46-47: stepped, the power of two at or below the target
Stepped(t) == Pow2(LogTarget(t, N_THRESHOLD))

\* fault: the upper clamp of stepped is missing
ClampSteppedNoMax(stepped) == IF stepped < P_CAP THEN P_CAP ELSE stepped

\* fault: the upper clamp of stepped assigns P_CAP
ClampSteppedToCap(stepped) ==
  LET s1 == IF stepped < P_CAP THEN P_CAP ELSE stepped
  IN  IF s1 > P_MAX THEN P_CAP ELSE s1

\* lines 48-53: stepped is clamped to P_CAP..P_MAX
ClampStepped(stepped) ==
  LET s1 == IF stepped < P_CAP THEN P_CAP ELSE stepped
  IN  IF s1 > P_MAX THEN P_MAX ELSE s1

calculatePieceSize(t) ==
  IF TotalLeqZero(t) THEN P_MIN
  ELSE
    LET logExp == LogExp(t)
        baseLog == Max(P_MIN, Pow2(logExp))
        current == IF baseLog > P_CAP THEN P_CAP ELSE baseLog
        stepped == ClampStepped(Stepped(t))
        current2 == IF PiecesExceed(t, current, N_THRESHOLD) THEN stepped
                    ELSE current
    IN  IF current2 < P_MIN THEN P_MIN ELSE current2

\* The totals calculatePieceSize is applied to: around every power of two and
\* around every multiple 3 * 2^e and 7500 * 2^e (1875 * 2^e KiB), below
\* 2^(MaxLog+10) bytes, and one negative total.
Mantissas == {<<1, 1>>, <<3, 2>>, <<1875, 11>>}   \* <<m, w>> with m < 2^w

Around(m, w) ==
  UNION {{m * 2 ^ e - 1, m * 2 ^ e, m * 2 ^ e + 1} : e \in 0..(MaxLog - w)}

KiBs == {q \in UNION {Around(mw[1], mw[2]) : mw \in Mantissas} : q >= 0}

Rems == {0, 1, 1023}

Totals == {Bytes(q, r) : q \in KiBs, r \in Rems} \cup {Bytes(-1, 0)}

-----------------------------------------------------------------------------
(***************************************************************************)
(* MultiHasher, src/main.go:177-310.                                       *)
(***************************************************************************)

\* h.Sum(nil) of a running hash: a digest of the bytes written since Reset
Sum(alg, written) == [alg |-> alg, of |-> written]

\* hex.EncodeToString of a digest
EncodeToString(h) == [hex |-> h]

\* data[lo : hi] of a Go slice (0-based, hi exclusive)
Slice(data, lo, hi) == SubSeq(data, lo + 1, hi)

NewMultiHasher(pieceSize) ==
  [ pieceSize            |-> pieceSize,
    torrentPieceBuffer   |-> << >>,
    torrentPieceSHA1     |-> << >>,
    torrentPieces        |-> << >>,
    fileSHA256           |-> << >>,
    filePieceSHA256      |-> << >>,
    filePieceBuffer      |-> 0,
    currentFilePieceList |-> << >>,
    currentFileByteCount |-> 0,
    currentFileRelPath   |-> "",
    results              |-> << >> ]

\* fault: StartFile also resets the cross-file accumulator
StartFileResetsTorrent(h, relPath) ==
  [h EXCEPT !.currentFileRelPath   = relPath,
            !.fileSHA256           = << >>,
            !.filePieceSHA256      = << >>,
            !.filePieceBuffer      = 0,
            !.currentFilePieceList = << >>,
            !.currentFileByteCount = 0,
            !.torrentPieceBuffer   = << >>,
            !.torrentPieceSHA1     = << >>]

\* fault: StartFile records the file it discards as a result
StartFileEmits(h, relPath) ==
  [h EXCEPT !.currentFileRelPath   = relPath,
            !.fileSHA256           = << >>,
            !.filePieceSHA256      = << >>,
            !.filePieceBuffer      = 0,
            !.currentFilePieceList = << >>,
            !.currentFileByteCount = 0,
            !.results              =
               Append(@, [ RelPath     |-> h.currentFileRelPath,
                           Size        |-> h.currentFileByteCount,
                           FileSHA256  |-> EncodeToString(Sum("sha-256", h.fileSHA256)),
                           PieceHashes |-> h.currentFilePieceList,
                           Err         |-> "nil" ])]

\* fault: StartFile leaves the per-file piece accumulator as it is
StartFileKeepsPiece(h, relPath) ==
  [h EXCEPT !.currentFileRelPath   = relPath,
            !.fileSHA256           = << >>,
            !.currentFilePieceList = << >>,
            !.currentFileByteCount = 0]

StartFile(h, relPath) ==
  [h EXCEPT !.currentFileRelPath   = relPath,
            !.fileSHA256           = << >>,
            !.filePieceSHA256      = << >>,
            !.filePieceBuffer      = 0,
            !.currentFilePieceList = << >>,
            !.currentFileByteCount = 0]

\* fault: the bytes taken are not capped by the space left in the piece
ToWriteUncapped(remaining, spaceLeft) == remaining

\* Write, lines 227-231 and 251-255: the bytes the next loop iteration takes
ToWrite(remaining, spaceLeft) ==
  IF remaining > spaceLeft THEN spaceLeft ELSE remaining

\* fault: a complete per-file piece is emitted and its count is not reset
FilePieceCompleteNoReset(h) ==
  IF h.filePieceBuffer = h.pieceSize
    THEN [h EXCEPT !.currentFilePieceList =
                      Append(@, EncodeToString(Sum("sha-256", h.filePieceSHA256))),
                   !.filePieceSHA256 = << >>]
    ELSE h

\* Write, lines 238-243: a complete per-file piece is emitted and reset
FilePieceComplete(h) ==
  IF h.filePieceBuffer = h.pieceSize
    THEN [h EXCEPT !.currentFilePieceList =
                      Append(@, EncodeToString(Sum("sha-256", h.filePieceSHA256))),
                   !.filePieceSHA256 = << >>,
                   !.filePieceBuffer = 0]
    ELSE h

\* fault: the loops test their condition after the body
LoopRunsOnceMore(offset, data) == offset <= Len(data)

\* Write, lines 225 and 250: the condition of the two loops
LoopRuns(offset, data) == offset < Len(data)

\* Write, lines 226-245: one iteration of the per-file piece loop; the hasher
\* and the offset after it
FilePieceIter(h, data, offset) ==
  LET spaceLeftFile == h.pieceSize - h.filePieceBuffer
      toWriteFile == ToWrite(Len(data) - offset, spaceLeftFile)
      chunk == Slice(data, offset, offset + toWriteFile)
      h1 == [h EXCEPT !.filePieceSHA256 = @ \o chunk,
                      !.filePieceBuffer = @ + toWriteFile]
  IN  [h |-> FilePieceComplete(h1), offset |-> offset + toWriteFile]

\* Write, lines 225-246: the per-file piece loop, from offset on
RECURSIVE FilePieceLoop(_, _, _)
FilePieceLoop(h, data, offset) ==
  IF ~LoopRuns(offset, data) THEN h
  ELSE LET it == FilePieceIter(h, data, offset)
       IN  FilePieceLoop(it.h, data, it.offset)

\* fault: a cross-file piece is emitted only once it is more than full
TorrentPieceCompleteLate(h) ==
  IF Len(h.torrentPieceBuffer) > h.pieceSize
    THEN [h EXCEPT !.torrentPieces = Append(@, Sum("sha-1", h.torrentPieceSHA1)),
                   !.torrentPieceBuffer = << >>,
                   !.torrentPieceSHA1 = << >>]
    ELSE h

\* Write, lines 263-268: a complete cross-file piece is emitted and reset
TorrentPieceComplete(h) ==
  IF Len(h.torrentPieceBuffer) = h.pieceSize
    THEN [h EXCEPT !.torrentPieces = Append(@, Sum("sha-1", h.torrentPieceSHA1)),
                   !.torrentPieceBuffer = << >>,
                   !.torrentPieceSHA1 = << >>]
    ELSE h

\* Write, lines 251-268: one iteration of the cross-file piece loop; the
\* hasher and the offset after it
TorrentPieceIter(h, data, offset) ==
  LET spaceLeftTorrent == h.pieceSize - Len(h.torrentPieceBuffer)
      toWriteTorrent == ToWrite(Len(data) - offset, spaceLeftTorrent)
      chunk == Slice(data, offset, offset + toWriteTorrent)
      h1 == [h EXCEPT !.torrentPieceBuffer = @ \o chunk,
                      !.torrentPieceSHA1 = @ \o chunk]
  IN  [h |-> TorrentPieceComplete(h1), offset |-> offset + toWriteTorrent]

\* Write, lines 249-269: the cross-file piece loop, from offset on
RECURSIVE TorrentPieceLoop(_, _, _)
TorrentPieceLoop(h, data, offset) ==
  IF ~LoopRuns(offset, data) THEN h
  ELSE LET it == TorrentPieceIter(h, data, offset)
       IN  TorrentPieceLoop(it.h, data, it.offset)

\* Write, lines 220-222: the whole-file digest and the byte count
WriteHead(h, data) ==
  [h EXCEPT !.fileSHA256 = @ \o data,
            !.currentFileByteCount = @ + Len(data)]

\* Write returns nil always; the hasher after it
Write(h, data) ==
  LET h1 == WriteHead(h, data)
      h2 == FilePieceLoop(h1, data, 0)
  IN  TorrentPieceLoop(h2, data, 0)

\* fault: the last partial per-file piece is not emitted
FinalFilePieceDropped(h) == h

\* EndFile, lines 279-282: the last partial per-file piece
FinalFilePiece(h) ==
  IF h.filePieceBuffer > 0
    THEN [h EXCEPT !.currentFilePieceList =
                      Append(@, EncodeToString(Sum("sha-256", h.filePieceSHA256)))]
    ELSE h

\* EndFile, lines 284-290: the FileHashResult of the current file
Result(h) ==
  [ RelPath     |-> h.currentFileRelPath,
    Size        |-> h.currentFileByteCount,
    FileSHA256  |-> EncodeToString(Sum("sha-256", h.fileSHA256)),
    PieceHashes |-> h.currentFilePieceList,
    Err         |-> "nil" ]

\* fault: the result is put in front of the earlier ones
AddResultFront(results, result) == <<result>> \o results

\* EndFile, line 292
AddResult(results, result) == Append(results, result)

EndFile(h) ==
  LET h1 == FinalFilePiece(h)
  IN  [h1 EXCEPT !.results = AddResult(@, Result(h1))]

\* fault: Finalize emits a piece also when the accumulator is empty
FinalizeAlways(h) ==
  [h EXCEPT !.torrentPieces = Append(@, Sum("sha-1", h.torrentPieceSHA1))]

Finalize(h) ==
  IF Len(h.torrentPieceBuffer) > 0
    THEN [h EXCEPT !.torrentPieces = Append(@, Sum("sha-1", h.torrentPieceSHA1))]
    ELSE h

GetTorrentPieces(h) == h.torrentPieces

GetResults(h) == h.results

-----------------------------------------------------------------------------
(***************************************************************************)
(* main(), src/main.go:312-557.                                            *)
(***************************************************************************)

PathNames == <<"a", "b", "c", "d", "e">>
Paths == {PathNames[i] : i \in 1..MaxFiles}
PathIndex(p) == CHOOSE i \in 1..Len(PathNames) : PathNames[i] = p

FileInfo == [RelPath : Paths, Size : 0..MaxSize]

\* filepath.Walk visits the regular files in lexical order, each once; a
\* single file is enumerated alone (lines 324-346)
Enumerations(dir) ==
  IF dir
    THEN {f \in UNION {[1..n -> FileInfo] : n \in 0..MaxFiles} :
            \A i, j \in 1..Len(f) :
              i < j => PathIndex(f[i].RelPath) < PathIndex(f[j].RelPath)}
    ELSE {<<fi>> : fi \in FileInfo}

\* filepath.Base(CLI.Path): the directory's name, or the single file's
BaseName == IF isDir THEN "dir" ELSE files[1].RelPath

\* the bytes of the file at relPath from offset on, n of them
FileBytes(relPath, offset, n) == [k \in 1..n |-> <<relPath, offset + k>>]

\* resultMap[relPath], lines 414-418 and 433: the last result stored under the
\* path, the zero FileHashResult when there is none
ResultOf(results, relPath) ==
  LET at == {i \in 1..Len(results) : results[i].RelPath = relPath}
  IN  IF at = {}
        THEN [RelPath |-> "", Size |-> 0, FileSHA256 |-> "",
              PieceHashes |-> << >>, Err |-> "nil"]
        ELSE results[CHOOSE i \in at : \A j \in at : j <= i]

\* lines 443-446: the name of a file in the Metalink document
MetaName(relPath) == IF isDir THEN <<BaseName, "/", relPath>> ELSE <<relPath>>

\* lines 432-475: the MetalinkFile of one enumerated file
MetalinkFile(fi, results, pieceSize) ==
  LET r == ResultOf(results, fi.RelPath)
  IN  [ Name   |-> MetaName(fi.RelPath),
        Size   |-> r.Size,
        Hash   |-> [Type |-> "sha-256", Value |-> r.FileSHA256],
        Pieces |-> [Type |-> "sha-256", Length |-> pieceSize,
                    Hashes |-> [i \in 1..Len(r.PieceHashes) |->
                                  [Type |-> "sha-256", Value |-> r.PieceHashes[i]]]] ]

\* lines 421-475: the Metalink document, unsigned
BuildMeta(h) ==
  [ Metaurls  |-> <<[Priority |-> 1, MediaType |-> "application/x-bittorrent",
                     Value |-> <<BaseName, ".torrent">>]>>,
    Files     |-> [i \in 1..Len(files) |->
                     MetalinkFile(files[i], GetResults(h), h.pieceSize)],
    Signature |-> "" ]

\* lines 508-519: the files of the torrent, from the enumeration
TorrentFiles ==
  IF isDir
    THEN [i \in 1..Len(files) |->
            [Length |-> files[i].Size, Path |-> <<files[i].RelPath>>]]
    ELSE << >>

\* lines 477-519: the torrent
BuildTorrent(h) ==
  [ Announce |-> "tracker",
    Info |-> [ PieceLength |-> h.pieceSize,
               Pieces      |-> GetTorrentPieces(h),
               Name        |-> BaseName,
               Length      |-> IF isDir THEN 0 ELSE files[1].Size,
               Files       |-> TorrentFiles ] ]

NoDoc == [Files |-> << >>]
Absent == [state |-> "absent"]
Partial == [state |-> "partial"]
Written(doc) == [state |-> "written", doc |-> doc]

\* a hasher call in the history; consecutive Writes are kept once
Call(op, arg) == <<op, arg>>
Logged(log, call) ==
  IF call[1] = "Write" /\ log # << >> /\ log[Len(log)][1] = "Write"
    THEN log ELSE Append(log, call)

\* no hasher call made yet
NoCall ==
  [ op |-> "", active |-> FALSE, data |-> << >>,
    fileOffset |-> 0, fileIters |-> 0, torrentOffset |-> 0, torrentIters |-> 0 ]

\* log.Fatalf: the process exits
Fatalf(reason) ==
  /\ pc' = "fatal"
  /\ failure' = reason

Init ==
  /\ isDir \in BOOLEAN
  /\ files \in Enumerations(isDir)
  /\ signer \in {"", "key"}
  /\ \E pieceSize \in 1..MaxPiece : mh = NewMultiHasher(pieceSize)
  /\ pc = "files"
  /\ idx = 1
  /\ fed = [i \in 1..Len(files) |-> << >>]
  /\ atStart = mh
  /\ calls = << >>
  /\ writes = 0
  /\ meta = NoDoc
  /\ tor = NoDoc
  /\ torrentOut = Absent
  /\ metaOut = Absent
  /\ gpgRuns = 0
  /\ failure = ""
  /\ total = Bytes(0, 0)
  /\ piece = 0
  /\ hcall = NoCall
  /\ before = mh
  /\ ncalls = 0
  /\ mirrors = << >>
  /\ pathSep = "/"

\* lines 348-350: an enumeration without files is fatal
NoFiles ==
  /\ pc = "files"
  /\ Len(files) = 0
  /\ Fatalf("no files")
  /\ UNCHANGED <<files, isDir, signer, mh, idx, fed, atStart, calls, writes,
                 meta, tor, torrentOut, metaOut, gpgRuns, total, piece,
                 callVars, urlVars>>

\* fault: a file that cannot be opened is skipped
OpenFileSkip ==
  /\ pc = "files"
  /\ idx <= Len(files)
  /\ mh' = StartFile(mh, files[idx].RelPath)
  /\ atStart' = mh'
  /\ calls' = Logged(calls, Call("StartFile", files[idx].RelPath))
  /\ writes' = 0
  /\ \/ pc' = "read" /\ idx' = idx
     \/ pc' = (IF idx < Len(files) THEN "files" ELSE "finalize") /\ idx' = idx + 1
  /\ UNCHANGED <<files, isDir, signer, fed, meta, tor, torrentOut,
                 metaOut, gpgRuns, failure, total, piece,
                 callVars, urlVars>>

\* lines 364-375: the loop takes the next file, StartFile, os.Open
OpenFile ==
  /\ pc = "files"
  /\ idx <= Len(files)
  /\ mh' = StartFile(mh, files[idx].RelPath)
  /\ atStart' = mh'
  /\ calls' = Logged(calls, Call("StartFile", files[idx].RelPath))
  /\ writes' = 0
  /\ \/ pc' = "read" /\ failure' = failure
     \/ Fatalf("open")
  /\ UNCHANGED <<files, isDir, signer, idx, fed, meta, tor, torrentOut,
                 metaOut, gpgRuns, total, piece,
                 callVars, urlVars>>

\* lines 378-405: one f.Read of n bytes with its error, the Write of the bytes
\* read, and on io.EOF the EndFile that ends the file (a Read of no bytes and
\* no error changes nothing and is left out)
ReadFile ==
  /\ pc = "read"
  /\ \E n \in 0..MaxChunk, err \in {"nil", "EOF", "error"} :
       /\ Len(fed[idx]) + n <= MaxFileLen
       /\ ~(n = 0 /\ err = "nil")
       /\ LET data == FileBytes(files[idx].RelPath, Len(fed[idx]), n)
              written == IF n > 0 THEN Write(mh, data) ELSE mh
              log == IF n > 0 THEN Logged(calls, Call("Write", "")) ELSE calls
          IN  /\ fed' = [fed EXCEPT ![idx] = @ \o data]
              /\ writes' = IF err = "EOF" THEN 0
                            ELSE IF n > 0 THEN writes + 1 ELSE writes
              /\ CASE err = "nil" ->
                        /\ mh' = written
                        /\ calls' = log
                        /\ UNCHANGED <<pc, idx, failure>>
                   [] err = "EOF" ->
                        /\ mh' = EndFile(written)
                        /\ calls' = Logged(log, Call("EndFile", files[idx].RelPath))
                        /\ idx' = idx + 1
                        /\ pc' = IF idx < Len(files) THEN "files" ELSE "finalize"
                        /\ failure' = failure
                   [] err = "error" ->
                        /\ mh' = written
                        /\ calls' = log
                        /\ idx' = idx
                        /\ Fatalf("read")
  /\ UNCHANGED <<files, isDir, signer, atStart, meta, tor, torrentOut, metaOut,
                 gpgRuns, total, piece,
                 callVars, urlVars>>

\* fault: the torrent takes the pieces before Finalize is called
BuildBeforeFinalize ==
  /\ pc = "finalize"
  /\ mh' = Finalize(mh)
  /\ meta' = BuildMeta(mh')
  /\ tor' = BuildTorrent(mh)
  /\ calls' = Logged(Logged(Logged(calls, Call("GetTorrentPieces", "")),
                            Call("Finalize", "")), Call("GetResults", ""))
  /\ pc' = "mkdir"
  /\ UNCHANGED <<files, isDir, signer, idx, fed, atStart, writes, torrentOut,
                 metaOut, gpgRuns, failure, total, piece,
                 callVars, urlVars>>

\* lines 407-519: Finalize, then the two documents are built in memory
FinalizeAndBuild ==
  /\ pc = "finalize"
  /\ mh' = Finalize(mh)
  /\ meta' = BuildMeta(mh')
  /\ tor' = BuildTorrent(mh')
  /\ calls' = Logged(Logged(Logged(calls, Call("Finalize", "")),
                            Call("GetResults", "")), Call("GetTorrentPieces", ""))
  /\ pc' = "mkdir"
  /\ UNCHANGED <<files, isDir, signer, idx, fed, atStart, writes, torrentOut,
                 metaOut, gpgRuns, failure, total, piece,
                 callVars, urlVars>>

\* lines 521-530: os.MkdirAll
MkdirAll ==
  /\ pc = "mkdir"
  /\ \/ pc' = "torrent" /\ failure' = failure
     \/ Fatalf("creating outdir")
  /\ UNCHANGED <<files, isDir, signer, mh, idx, fed, atStart, calls, writes,
                 meta, tor, torrentOut, metaOut, gpgRuns, total, piece,
                 callVars, urlVars>>

\* lines 532-535 and 559-569: writeTorrentFile; os.Create may fail and leave
\* nothing, bencode.Marshal may fail and leave the file it was writing
WriteTorrent ==
  /\ pc = "torrent"
  /\ \/ torrentOut' = Written(tor) /\ pc' = "meta" /\ failure' = failure
     \/ torrentOut' = torrentOut /\ Fatalf("write torrent")
     \/ torrentOut' = Partial /\ Fatalf("write torrent")
  /\ UNCHANGED <<files, isDir, signer, mh, idx, fed, atStart, calls, writes,
                 meta, tor, metaOut, gpgRuns, total, piece,
                 callVars, urlVars>>

\* writeMetaFile, lines 571-578: xml.MarshalIndent may fail and leave the
\* file as it was, os.WriteFile may fail before or after truncating it
WriteMetaFile(m, next, reason) ==
  \/ metaOut' = Written(m) /\ pc' = next /\ failure' = failure
  \/ metaOut' = metaOut /\ Fatalf(reason)
  \/ metaOut' = Partial /\ Fatalf(reason)

\* lines 537-540
WriteMeta ==
  /\ pc = "meta"
  /\ WriteMetaFile(meta, "sign", "write meta4")
  /\ UNCHANGED <<files, isDir, signer, mh, idx, fed, atStart, calls, writes,
                 meta, tor, torrentOut, gpgRuns, total, piece,
                 callVars, urlVars>>

\* line 542 with no signer, and line 556
NoSign ==
  /\ pc = "sign"
  /\ signer = ""
  /\ pc' = "done"
  /\ UNCHANGED <<files, isDir, signer, mh, idx, fed, atStart, calls, writes,
                 meta, tor, torrentOut, metaOut, gpgRuns, failure, total, piece,
                 callVars, urlVars>>

\* fault: gpg is run whether or not a signer was given
SignUnguarded ==
  /\ pc = "sign"
  /\ gpgRuns' = gpgRuns + 1
  /\ \/ /\ meta' = [meta EXCEPT !.Signature =
                      [Mediatype |-> "application/pgp-signature",
                       Value |-> <<"sig", signer, metaOut>>]]
        /\ pc' = "resign"
        /\ failure' = failure
     \/ meta' = meta /\ Fatalf("pgp sign failed")
  /\ UNCHANGED <<files, isDir, signer, mh, idx, fed, atStart, calls, writes,
                 tor, torrentOut, metaOut, total, piece,
                 callVars, urlVars>>

\* lines 542-550 and 580-590: pgpDetachedArmorSign runs gpg on the file
Sign ==
  /\ pc = "sign"
  /\ signer # ""
  /\ gpgRuns' = gpgRuns + 1
  /\ \/ /\ meta' = [meta EXCEPT !.Signature =
                      [Mediatype |-> "application/pgp-signature",
                       Value |-> <<"sig", signer, metaOut>>]]
        /\ pc' = "resign"
        /\ failure' = failure
     \/ meta' = meta /\ Fatalf("pgp sign failed")
  /\ UNCHANGED <<files, isDir, signer, mh, idx, fed, atStart, calls, writes,
                 tor, torrentOut, metaOut, total, piece,
                 callVars, urlVars>>

\* lines 551-556: the signed document is written over the unsigned one
WriteSignedMeta ==
  /\ pc = "resign"
  /\ WriteMetaFile(meta, "done", "write meta4 with signature")
  /\ UNCHANGED <<files, isDir, signer, mh, idx, fed, atStart, calls, writes,
                 meta, tor, torrentOut, gpgRuns, total, piece,
                 callVars, urlVars>>

Next ==
  \/ NoFiles
  \/ OpenFile
  \/ ReadFile
  \/ FinalizeAndBuild
  \/ MkdirAll
  \/ WriteTorrent
  \/ WriteMeta
  \/ NoSign
  \/ Sign
  \/ WriteSignedMeta

Spec == Init /\ [][Next]_vars

-----------------------------------------------------------------------------
(* calculatePieceSize applied to one total. *)

InitPiece ==
  /\ total \in Totals
  /\ piece = 0
  /\ isDir = FALSE
  /\ files = << >>
  /\ signer = ""
  /\ mh = NewMultiHasher(P_MIN)
  /\ pc = "piece"
  /\ idx = 1
  /\ fed = << >>
  /\ atStart = mh
  /\ calls = << >>
  /\ writes = 0
  /\ meta = NoDoc
  /\ tor = NoDoc
  /\ torrentOut = Absent
  /\ metaOut = Absent
  /\ gpgRuns = 0
  /\ failure = ""
  /\ hcall = NoCall
  /\ before = mh
  /\ ncalls = 0
  /\ mirrors = << >>
  /\ pathSep = "/"

\* line 352
PieceSize ==
  /\ pc = "piece"
  /\ piece = 0
  /\ piece' = calculatePieceSize(total)
  /\ UNCHANGED <<total, runVars, callVars, urlVars>>

NextPiece == PieceSize

SpecPiece == InitPiece /\ [][NextPiece]_vars

-----------------------------------------------------------------------------
(***************************************************************************)
(* The MultiHasher on its own: the exported calls in any order, as a       *)
(* caller other than main() may make them.  StartFile, EndFile and         *)
(* Finalize are one step each; Write is entered, runs its two loops one    *)
(* iteration per step and returns, so that a loop that fails to advance    *)
(* shows in the states.                                                    *)
(***************************************************************************)

InitHasher ==
  /\ \E pieceSize \in 1..MaxPiece : mh = NewMultiHasher(pieceSize)
  /\ hcall = NoCall
  /\ before = mh
  /\ ncalls = 0
  /\ mirrors = << >>
  /\ pathSep = "/"
  /\ pc = "hasher"
  /\ isDir = FALSE
  /\ files = << >>
  /\ signer = ""
  /\ idx = 1
  /\ fed = << >>
  /\ atStart = mh
  /\ calls = << >>
  /\ writes = 0
  /\ meta = NoDoc
  /\ tor = NoDoc
  /\ torrentOut = Absent
  /\ metaOut = Absent
  /\ gpgRuns = 0
  /\ failure = ""
  /\ total = Bytes(0, 0)
  /\ piece = 0

\* what stays as it is in every step of SpecHasher
HasherFrame ==
  UNCHANGED <<pc, files, isDir, signer, idx, fed, atStart, calls, writes,
              meta, tor, torrentOut, metaOut, gpgRuns, failure, total, piece,
              urlVars>>

\* a call of op is made on the hasher and has returned
Returned(op) == [NoCall EXCEPT !.op = op]

\* the caller may make its next call
CanCall == pc = "hasher" /\ ~hcall.active /\ ncalls < MaxCalls

\* StartFile, lines 209-216
CallStartFile ==
  /\ CanCall
  /\ \E relPath \in Paths : mh' = StartFile(mh, relPath)
  /\ hcall' = Returned("StartFile")
  /\ before' = mh
  /\ ncalls' = ncalls + 1
  /\ HasherFrame

\* Write, lines 219-224: the call is entered with a chunk of n bytes, the
\* next n bytes of the current file
CallWrite ==
  /\ CanCall
  /\ \E n \in 0..MaxChunk :
       /\ mh.currentFileByteCount + n <= MaxFileLen
       /\ LET data == FileBytes(mh.currentFileRelPath, mh.currentFileByteCount, n)
          IN  /\ mh' = WriteHead(mh, data)
              /\ hcall' = [NoCall EXCEPT !.op = "Write", !.active = TRUE,
                                         !.data = data]
  /\ before' = mh
  /\ ncalls' = ncalls + 1
  /\ HasherFrame

\* Write, lines 225-246: one iteration of the per-file piece loop (the guard
\* on fileIters only keeps a loop that does not advance finite)
WriteFileIter ==
  /\ hcall.active
  /\ LoopRuns(hcall.fileOffset, hcall.data)
  /\ hcall.fileIters <= Len(hcall.data)
  /\ LET it == FilePieceIter(mh, hcall.data, hcall.fileOffset)
     IN  /\ mh' = it.h
         /\ hcall' = [hcall EXCEPT !.fileOffset = it.offset, !.fileIters = @ + 1]
  /\ UNCHANGED <<before, ncalls>>
  /\ HasherFrame

\* Write, lines 249-269: one iteration of the cross-file piece loop
WriteTorrentIter ==
  /\ hcall.active
  /\ ~LoopRuns(hcall.fileOffset, hcall.data)
  /\ LoopRuns(hcall.torrentOffset, hcall.data)
  /\ hcall.torrentIters <= Len(hcall.data)
  /\ LET it == TorrentPieceIter(mh, hcall.data, hcall.torrentOffset)
     IN  /\ mh' = it.h
         /\ hcall' = [hcall EXCEPT !.torrentOffset = it.offset,
                                   !.torrentIters = @ + 1]
  /\ UNCHANGED <<before, ncalls>>
  /\ HasherFrame

\* Write, line 271: return nil
WriteReturn ==
  /\ hcall.active
  /\ ~LoopRuns(hcall.fileOffset, hcall.data)
  /\ ~LoopRuns(hcall.torrentOffset, hcall.data)
  /\ hcall' = [hcall EXCEPT !.active = FALSE]
  /\ UNCHANGED <<mh, before, ncalls>>
  /\ HasherFrame

\* EndFile, lines 274-294
CallEndFile ==
  /\ CanCall
  /\ mh' = EndFile(mh)
  /\ hcall' = Returned("EndFile")
  /\ before' = mh
  /\ ncalls' = ncalls + 1
  /\ HasherFrame

\* Finalize, lines 296-302
CallFinalize ==
  /\ CanCall
  /\ mh' = Finalize(mh)
  /\ hcall' = Returned("Finalize")
  /\ before' = mh
  /\ ncalls' = ncalls + 1
  /\ HasherFrame

NextHasher ==
  \/ CallStartFile
  \/ CallWrite
  \/ WriteFileIter
  \/ WriteTorrentIter
  \/ WriteReturn
  \/ CallEndFile
  \/ CallFinalize

SpecHasher == InitHasher /\ [][NextHasher]_vars

-----------------------------------------------------------------------------
(***************************************************************************)
(* The names and URLs of the metalink entries, src/main.go:443-473.  A     *)
(* mirror, a relative path and a name are strings spelled out as sequences *)
(* of characters, so that TrimRight, HasSuffix and ToSlash do what they do *)
(* in the code; the run of main() above keeps each path whole.             *)
(***************************************************************************)

\* fault: one trailing character is cut (strings.TrimSuffix)
TrimRightOnce(s, cutset) ==
  IF s # << >> /\ s[Len(s)] \in cutset THEN SubSeq(s, 1, Len(s) - 1) ELSE s

\* strings.TrimRight: every trailing character of s that is in cutset is cut
RECURSIVE TrimRight(_, _)
TrimRight(s, cutset) ==
  IF s # << >> /\ s[Len(s)] \in cutset
    THEN TrimRight(SubSeq(s, 1, Len(s) - 1), cutset)
    ELSE s

\* strings.HasSuffix
HasSuffix(s, suffix) ==
  /\ Len(s) >= Len(suffix)
  /\ SubSeq(s, Len(s) - Len(suffix) + 1, Len(s)) = suffix

\* filepath.ToSlash: each os.PathSeparator becomes a slash
ToSlash(path) ==
  IF pathSep = "/" THEN path
  ELSE [i \in 1..Len(path) |-> IF path[i] = pathSep THEN "/" ELSE path[i]]

\* line 426: baseName, filepath.Base of the path given
UrlBaseName == IF isDir THEN <<"b">> ELSE files[1].RelPath

\* lines 443-446: relPath, the name of the entry
MetalinkRelPath(fi) ==
  IF isDir THEN UrlBaseName \o <<"/">> \o ToSlash(fi.RelPath)
  ELSE ToSlash(fi.RelPath)

\* lines 448-458: urls, one per mirror
MetalinkURLs(fi) ==
  [i \in 1..Len(mirrors) |->
     LET m == mirrors[i]
         u == TrimRight(m, {"/"}) \o <<"/">> \o MetalinkRelPath(fi)
     IN  [ Priority |-> i,
           Value |-> IF ~isDir /\ HasSuffix(m, fi.RelPath) THEN m ELSE u ]]

\* lines 460-473: the Name and URLs of the MetalinkFile
UrlEntry(fi) == [Name |-> MetalinkRelPath(fi), URLs |-> MetalinkURLs(fi)]

\* the mirrors tried: a host, a host with a path, a URL of the file x, or
\* nothing, each followed by up to MaxTrail slashes
MirrorStems == { << >>, <<"h">>, <<"h", "/", "p">>, <<"h", "/", "x">> }
Slashes(n) == [i \in 1..n |-> "/"]
Mirrors == { stem \o Slashes(n) : stem \in MirrorStems, n \in 0..MaxTrail }
MirrorLists == UNION { [1..k -> Mirrors] : k \in 0..MaxMirrors }

\* the relative paths filepath.Walk may report, in its lexical order
RelPaths(sep) == << <<"x">>, <<"y", sep, "x">>, <<"y", sep, "y">> >>

\* lines 323-345 with the paths spelled out: a directory of 1..MaxFiles
\* regular files in lexical order, or one file
UrlEnumerations(dir, sep) ==
  IF dir
    THEN { [i \in 1..Len(ix) |-> [RelPath |-> RelPaths(sep)[ix[i]], Size |-> 0]] :
             ix \in { s \in UNION { [1..n -> 1..Len(RelPaths(sep))] : n \in 1..MaxFiles } :
                        \A i \in 1..(Len(s) - 1) : s[i] < s[i + 1] } }
    ELSE { <<[RelPath |-> <<"x">>, Size |-> 0]>> }

InitUrls ==
  /\ isDir \in BOOLEAN
  /\ pathSep \in {"/", "\\"}
  /\ files \in UrlEnumerations(isDir, pathSep)
  /\ mirrors \in MirrorLists
  /\ pc = "urls"
  /\ meta = NoDoc
  /\ signer = ""
  /\ mh = NewMultiHasher(P_MIN)
  /\ idx = 1
  /\ fed = << >>
  /\ atStart = mh
  /\ calls = << >>
  /\ writes = 0
  /\ tor = NoDoc
  /\ torrentOut = Absent
  /\ metaOut = Absent
  /\ gpgRuns = 0
  /\ failure = ""
  /\ total = Bytes(0, 0)
  /\ piece = 0
  /\ hcall = NoCall
  /\ before = mh
  /\ ncalls = 0

\* lines 421-475: the entries of the metalink are built
ListFiles ==
  /\ pc = "urls"
  /\ meta' = [Files |-> [i \in 1..Len(files) |-> UrlEntry(files[i])]]
  /\ pc' = "listed"
  /\ UNCHANGED <<files, isDir, signer, mh, idx, fed, atStart, calls, writes,
                 tor, torrentOut, metaOut, gpgRuns, failure, total, piece,
                 callVars, urlVars>>

NextUrls == ListFiles

SpecUrls == InitUrls /\ [][NextUrls]_vars

-----------------------------------------------------------------------------
(***************************************************************************)
(* Properties.                                                             *)
(***************************************************************************)

Min(a, b) == IF a < b THEN a ELSE b

CeilDiv(a, b) == (a + b - 1) \div b

\* a <= b on totals
TotalLeq(a, b) == a.kib < b.kib \/ (a.kib = b.kib /\ a.rem <= b.rem)

RECURSIVE Concat(_, _)
Concat(seqs, n) == IF n = 0 THEN << >> ELSE Concat(seqs, n - 1) \o seqs[n]

\* every byte passed to Write in the run so far, in order
Stream == Concat(fed, Len(fed))

\* bytes [(k-1)*P, min(k*P, Len(data))) of data: its k-th piece, k from 1
PieceRange(data, k, P) == SubSeq(data, (k - 1) * P + 1, Min(k * P, Len(data)))

\* the bytes a per-file piece hash covers
Covered(entry) == entry.hex.of

RECURSIVE CoveredTotal(_, _)
CoveredTotal(list, n) ==
  IF n = 0 THEN 0 ELSE CoveredTotal(list, n - 1) + Len(Covered(list[n]))

\* Finalize has been called
Finalized ==
  \/ pc \in {"mkdir", "torrent", "meta", "sign", "resign", "done"}
  \/ pc = "fatal" /\ failure \notin {"no files", "open", "read"}

\* C1: the per-file piece list of every file that went through StartFile,
\* Writes totalling S bytes and EndFile has ceil(S / P) entries; the k-th covers
\* bytes [(k-1)P, min(kP, S)) of the file, so every entry but the last covers
\* exactly P bytes, the last covers 1..P bytes, the coverages sum to S, and
\* S = 0 gives the empty list.
C1_PerFilePieces ==
  \A i \in 1..Len(GetResults(mh)) :
    LET S == Len(fed[i])
        P == mh.pieceSize
        list == GetResults(mh)[i].PieceHashes
        n == Len(list)
    IN  /\ n = CeilDiv(S, P)
        /\ \A k \in 1..n : Covered(list[k]) = PieceRange(fed[i], k, P)
        /\ \A k \in 1..(n - 1) : Len(Covered(list[k])) = P
        /\ n > 0 => Len(Covered(list[n])) \in 1..P
        /\ CoveredTotal(list, n) = S
        /\ S = 0 => list = << >>

\* a file ended with full pieces followed by a short last piece
C1_Witness ==
  \E i \in 1..Len(GetResults(mh)) :
    LET list == GetResults(mh)[i].PieceHashes
    IN  /\ Len(list) >= 2
        /\ Len(Covered(list[Len(list)])) < mh.pieceSize

\* C2: after Finalize, the cross-file piece stream holds ceil(T / P) digests,
\* where T is the total of the bytes written in the run, and none when T = 0.
C2_CrossFileCount ==
  Finalized =>
    /\ Len(GetTorrentPieces(mh)) = CeilDiv(Len(Stream), mh.pieceSize)
    /\ Len(Stream) = 0 => GetTorrentPieces(mh) = << >>

\* a finalized run of two files and more whose total is not a multiple of P
C2_Witness ==
  /\ Finalized
  /\ Len(files) >= 2
  /\ Len(Stream) % mh.pieceSize # 0
  /\ Len(GetTorrentPieces(mh)) >= 2

\* C3: the cross-file pieces are the pieces of the concatenation of the files
\* in enumeration order: the k-th emitted piece is the digest of bytes
\* [(k-1)P, min(kP, T)) of the stream, and after Finalize the pieces, also as
\* the torrent holds them, are all ceil(T / P) pieces of the stream.
C3_CrossFileCoverage ==
  LET P == mh.pieceSize
      pieces == GetTorrentPieces(mh)
      whole == [k \in 1..CeilDiv(Len(Stream), P) |->
                  Sum("sha-1", PieceRange(Stream, k, P))]
  IN  /\ \A k \in 1..Len(pieces) : pieces[k] = Sum("sha-1", PieceRange(Stream, k, P))
      /\ Finalized => pieces = whole /\ tor.Info.Pieces = whole

\* a finalized run with a piece made of the tail of one file and the head of
\* the next
C3_Witness ==
  /\ Finalized
  /\ \E k \in 1..Len(GetTorrentPieces(mh)) :
       LET of == GetTorrentPieces(mh)[k].of
       IN  \E a, b \in 1..Len(of) : of[a][1] # of[b][1]

\* data written one byte per Write
RECURSIVE WriteEach(_, _, _)
WriteEach(h, data, n) ==
  IF n = 0 THEN h ELSE Write(WriteEach(h, data, n - 1), <<data[n]>>)

\* C4: while a file is read, whatever the chunks its bytes came in, the hasher
\* is the one a single Write of all the bytes yields from the state StartFile
\* left, and the one byte-by-byte Writes yield: whole-file digest input,
\* per-file pieces and partial piece, cross-file pieces and partial piece.
C4_ChunkingIndependence ==
  pc = "read" =>
    /\ mh = Write(atStart, fed[idx])
    /\ mh = WriteEach(atStart, fed[idx], Len(fed[idx]))

\* bytes that came in several chunks, one of them of two bytes or more, with a
\* per-file piece emitted and a cross-file piece pending
C4_Witness ==
  /\ pc = "read"
  /\ writes >= 2
  /\ writes < Len(fed[idx])
  /\ Len(mh.currentFilePieceList) >= 1
  /\ mh.torrentPieceBuffer # << >>

\* C5: calculatePieceSize returns a value in P_MIN..P_MAX for every total,
\* zero and negative totals included.
C5_PieceSizeRange == piece # 0 => P_MIN <= piece /\ piece <= P_MAX

\* a total whose stepped piece length exceeds P_MAX before the clamp
C5_Witness ==
  /\ piece = P_MAX
  /\ PiecesExceed(total, P_CAP, N_THRESHOLD)
  /\ Pow2(LogTarget(total, N_THRESHOLD)) > P_MAX

\* C6: calculatePieceSize is monotonic non-decreasing: the result for a total
\* is at most the result for every total above it.
C6_Monotonic ==
  piece # 0 =>
    \A b \in Totals : TotalLeq(total, b) => piece <= calculatePieceSize(b)

\* a total under the base rule at its cap, below a total under the piece-count
\* rule with a larger result
C6_Witness ==
  /\ piece = P_CAP
  /\ ~PiecesExceed(total, P_CAP, N_THRESHOLD)
  /\ \E b \in Totals :
       /\ TotalLeq(total, b)
       /\ PiecesExceed(b, P_CAP, N_THRESHOLD)
       /\ calculatePieceSize(b) > piece

\* C7: in every terminated run both output documents have been written or
\* neither has.
C7_AllOrNothing ==
  pc \in {"done", "fatal"} =>
    (torrentOut.state = "written") = (metaOut.state = "written")

HasCall(call) == \E j \in 1..Len(calls) : calls[j] = call

\* C8: a failure to open or read a file ends the run with no output file
\* written and no further step, and an output file is written only after
\* EndFile of every enumerated file and Finalize.
C8_NoOutputBeforeHashed ==
  /\ failure \in {"open", "read"} =>
       pc = "fatal" /\ torrentOut = Absent /\ metaOut = Absent
  /\ pc = "fatal" => ~ENABLED Next
  /\ (torrentOut # Absent \/ metaOut # Absent) =>
       /\ \A i \in 1..Len(files) : HasCall(Call("EndFile", files[i].RelPath))
       /\ Len(GetResults(mh)) = Len(files)
       /\ HasCall(Call("Finalize", ""))

\* the read of the second file failed after some of its bytes were hashed
C8_Witness ==
  /\ failure = "read"
  /\ idx = 2
  /\ Len(fed[2]) > 0
  /\ torrentOut = Absent /\ metaOut = Absent

IsNotWrite(call) == call[1] # "Write"

RECURSIVE FileCalls(_)
FileCalls(n) ==
  IF n = 0 THEN << >>
  ELSE FileCalls(n - 1) \o <<Call("StartFile", files[n].RelPath),
                              Call("EndFile", files[n].RelPath)>>

\* the calls other than Write of a run that completes
ExpectedCalls ==
  FileCalls(Len(files)) \o
    <<Call("Finalize", ""), Call("GetResults", ""), Call("GetTorrentPieces", "")>>

IsPrefix(a, b) == Len(a) <= Len(b) /\ SubSeq(b, 1, Len(a)) = a

\* C9: the hasher sees, for each file in enumeration order, one StartFile, then
\* Writes, then one EndFile before the next StartFile; then one Finalize, after
\* the last EndFile and before the pieces are read.  Every run is a prefix of
\* that sequence and a run that completes made all of it.
C9_CallProtocol ==
  /\ IsPrefix(SelectSeq(calls, IsNotWrite), ExpectedCalls)
  /\ \A j \in 1..Len(calls) :
       calls[j][1] = "Write" => j > 1 /\ calls[j - 1][1] = "StartFile"
  /\ pc = "done" => SelectSeq(calls, IsNotWrite) = ExpectedCalls

\* a completed run of two files with Writes
C9_Witness ==
  /\ pc = "done"
  /\ Len(files) = 2
  /\ \A i \in 1..2 : Len(fed[i]) > 0

\* C10: after the hashing of n files GetResults holds n results, the i-th
\* carrying the path of the i-th enumerated file, and both documents, in
\* memory and as written, list the files in enumeration order.
C10_EnumerationOrder ==
  /\ Finalized =>
       /\ Len(GetResults(mh)) = Len(files)
       /\ \A i \in 1..Len(files) : GetResults(mh)[i].RelPath = files[i].RelPath
       /\ Len(meta.Files) = Len(files)
       /\ \A i \in 1..Len(files) : meta.Files[i].Name = MetaName(files[i].RelPath)
       /\ isDir => /\ Len(tor.Info.Files) = Len(files)
                   /\ \A i \in 1..Len(files) :
                        tor.Info.Files[i].Path = <<files[i].RelPath>>
       /\ ~isDir => tor.Info.Name = files[1].RelPath /\ tor.Info.Files = << >>
  /\ pc = "done" =>
       /\ torrentOut = Written(tor)
       /\ metaOut = Written(meta)

\* a completed run over a directory of two files
C10_Witness ==
  /\ pc = "done"
  /\ isDir
  /\ Len(files) = 2

\* the call of op has returned and no other was made since
Done(op) == pc = "hasher" /\ hcall.op = op /\ ~hcall.active

\* the stepped Write leaves the hasher as the Write operator does
WriteStepsAgree == Done("Write") => mh = Write(before, hcall.data)

\* C11: a Write of a zero-length chunk, in any state a sequence of hasher
\* calls leads to, runs neither loop, is ready to return as soon as it is
\* entered, and leaves the whole hasher as it was: the whole-file digest input,
\* the per-file byte count, the per-file partial piece and piece list, the
\* cross-file partial piece, the cross-file pieces emitted and the results.
C11_EmptyWriteNoOp ==
  (pc = "hasher" /\ hcall.op = "Write" /\ hcall.data = << >>) =>
    /\ hcall.fileIters = 0
    /\ hcall.torrentIters = 0
    /\ hcall.active => ENABLED WriteReturn
    /\ mh = before

\* an empty Write has returned on a hasher that held a per-file partial piece,
\* emitted per-file pieces and a cross-file partial piece
C11_Witness ==
  /\ Done("Write")
  /\ hcall.data = << >>
  /\ before.filePieceBuffer > 0
  /\ before.currentFilePieceList # << >>
  /\ before.torrentPieceBuffer # << >>

\* main() has passed the test of CLI.Sign at line 542
PastSign ==
  \/ pc \in {"resign", "done"}
  \/ pc = "fatal" /\ failure \in {"pgp sign failed", "write meta4 with signature"}

\* C12: signing is attempted exactly when a signer identity is given.  With no
\* signer gpg is never run, the metalink file is written once only (from
\* absent, by the write at line 538) and what is written carries no signature;
\* with a signer, gpg has run once when line 542 is passed, and a signing
\* failure ends the run as a failure, after which nothing more happens.
C12_SignIffSigner ==
  /\ [](signer = "" =>
          /\ gpgRuns = 0
          /\ pc # "resign"
          /\ metaOut.state = "written" => metaOut.doc.Signature = "")
  /\ [](PastSign => (gpgRuns = 1 <=> signer # ""))
  /\ [](failure = "pgp sign failed" => pc = "fatal" /\ signer # "" /\ gpgRuns = 1)
  /\ [][/\ signer = "" /\ metaOut' # metaOut => metaOut = Absent /\ pc = "meta"
        /\ pc = "fatal" => pc' = "fatal"]_vars

\* a run without a signer is complete: the unsigned metalink is on disk
C12_Witness ==
  /\ pc = "done"
  /\ signer = ""
  /\ gpgRuns = 0
  /\ metaOut = Written(meta)
  /\ meta.Files # << >>

\* m without the slashes it ends with: its longest prefix that is empty or
\* ends with another character
Stem(m) ==
  LET n == CHOOSE n \in 0..Len(m) :
             /\ n = 0 \/ m[n] # "/"
             /\ \A k \in (n + 1)..Len(m) : m[k] = "/"
  IN  SubSeq(m, 1, n)

\* the relative path with a slash in place of each platform separator
SlashNormalized(rel) ==
  [i \in 1..Len(rel) |-> IF rel[i] = pathSep THEN "/" ELSE rel[i]]

\* C13: for a directory input with base name B and mirrors m_1..m_k, every
\* enumerated file with slash-normalized relative path r has an entry named
\* B/r with exactly k URLs, the i-th being m_i without its trailing slashes
\* followed by /B/r, with priority i.
C13_DirectoryUrls ==
  (pc = "listed" /\ isDir) =>
    /\ Len(meta.Files) = Len(files)
    /\ \A f \in 1..Len(files) :
         LET r == SlashNormalized(files[f].RelPath)
             B == UrlBaseName
             e == meta.Files[f]
         IN  /\ e.Name = B \o <<"/">> \o r
             /\ Len(e.URLs) = Len(mirrors)
             /\ \A i \in 1..Len(mirrors) :
                  /\ e.URLs[i].Priority = i
                  /\ e.URLs[i].Value = Stem(mirrors[i]) \o <<"/">> \o B \o <<"/">> \o r

\* a directory with a file in a sub-directory on a platform whose separator
\* is not the slash, listed with two mirrors of which one ends with two slashes
C13_Witness ==
  /\ pc = "listed"
  /\ isDir
  /\ pathSep # "/"
  /\ \E f \in 1..Len(files) : Len(files[f].RelPath) > 1
  /\ Len(mirrors) = 2
  /\ \E i \in 1..2 : Len(mirrors[i]) - Len(Stem(mirrors[i])) = 2

\* the cross-file state of a hasher: the partial piece, its running digest and
\* the pieces emitted
CrossFile(h) == <<h.torrentPieceBuffer, h.torrentPieceSHA1, h.torrentPieces>>

\* C14: StartFile, in whatever state it is called, sets the per-file partial
\* piece count and the per-file byte count to 0 and empties the per-file piece
\* list and the whole-file and per-file-piece digest inputs, adds nothing to
\* the results, and leaves the cross-file partial piece, the cross-file pieces
\* emitted and the piece size as they were; EndFile too leaves the cross-file
\* accumulator and the cross-file pieces emitted as they were.
C14_StartEndFrame ==
  /\ Done("StartFile") =>
       /\ mh.filePieceBuffer = 0
       /\ mh.currentFileByteCount = 0
       /\ mh.currentFilePieceList = << >>
       /\ mh.fileSHA256 = << >>
       /\ mh.filePieceSHA256 = << >>
       /\ GetResults(mh) = GetResults(before)
       /\ CrossFile(mh) = CrossFile(before)
       /\ mh.pieceSize = before.pieceSize
  /\ Done("EndFile") => CrossFile(mh) = CrossFile(before)

\* StartFile has returned on a hasher whose previous file was not ended: it
\* held per-file pieces, a per-file partial piece, a cross-file partial piece
\* and an emitted cross-file piece
C14_Witness ==
  /\ Done("StartFile")
  /\ before.filePieceBuffer > 0
  /\ before.currentFilePieceList # << >>
  /\ before.torrentPieceBuffer # << >>
  /\ before.torrentPieces # << >>

\* the FileHashResult of a file hashed alone: a new hasher of piece size P is
\* given StartFile, the bytes of the file in one Write, and EndFile
HashedAlone(relPath, data, P) ==
  GetResults(EndFile(Write(StartFile(NewMultiHasher(P), relPath), data)))[1]

\* C15: the FileHashResult of a file (its size, whole-file digest and per-file
\* piece hashes) is the one the file has when it is hashed alone with the same
\* piece size: it is a function of the file's bytes and the piece size, so two
\* runs that differ only in the files processed before it give it the same
\* result, whatever partial pieces those files left.
C15_ResultOfFileAlone ==
  \A i \in 1..Len(GetResults(mh)) :
    GetResults(mh)[i] = HashedAlone(files[i].RelPath, fed[i], mh.pieceSize)

\* a second file of several pieces is ended after a first file that ended in
\* the middle of a piece, per file and across files
C15_Witness ==
  /\ Len(GetResults(mh)) = 2
  /\ Len(fed[1]) % mh.pieceSize # 0
  /\ Len(fed[2]) > mh.pieceSize
  /\ Len(GetResults(mh)[2].PieceHashes) > 1

\* floor(T / current) <= n, for current a multiple of 1024
PieceCountAtMost(t, current, n) == t.kib < (n + 1) * (current \div 1024)

\* T / current < n, for current a multiple of 1024
PieceCountBelow(t, current, n) == t.kib < n * (current \div 1024)

\* C16 as stated: for every total T <= N_THRESHOLD * P_MAX the piece count
\* T / calculatePieceSize(T) does not exceed N_THRESHOLD.  The count is taken
\* rounded down, the reading most favourable to the statement.
C16_CountWithinThreshold ==
  (piece # 0 /\ ~PiecesExceed(total, P_MAX, N_THRESHOLD)) =>
    PieceCountAtMost(total, piece, N_THRESHOLD)

\* C16, amended: for every total T <= N_THRESHOLD * P_MAX the piece count
\* T / calculatePieceSize(T) is below 2 * N_THRESHOLD, because stepped is the
\* target rounded down to a power of two; it does not exceed N_THRESHOLD for
\* T <= N_THRESHOLD * P_CAP, where the piece-count rule is not applied.
C16_CountBelowTwiceThreshold ==
  (piece # 0 /\ ~PiecesExceed(total, P_MAX, N_THRESHOLD)) =>
    /\ PieceCountBelow(total, piece, 2 * N_THRESHOLD)
    /\ ~PiecesExceed(total, P_CAP, N_THRESHOLD) =>
         ~PiecesExceed(total, piece, N_THRESHOLD)

\* a total under the piece-count rule, at most N_THRESHOLD * P_MAX, whose piece
\* length is above P_CAP and still gives more than N_THRESHOLD pieces
C16_Witness ==
  /\ piece > P_CAP
  /\ PiecesExceed(total, P_CAP, N_THRESHOLD)
  /\ ~PiecesExceed(total, P_MAX, N_THRESHOLD)
  /\ ~PieceCountAtMost(total, piece, N_THRESHOLD)

\* n >= 1 is a power of two
RECURSIVE IsPowerOfTwo(_)
IsPowerOfTwo(n) == n = 1 \/ (n > 1 /\ n % 2 = 0 /\ IsPowerOfTwo(n \div 2))

\* C17: calculatePieceSize returns an exact power of two for every total.
C17_PowerOfTwo == piece # 0 => IsPowerOfTwo(piece)

\* a total under the piece-count rule whose target is not a power of two and
\* whose piece length lies strictly between P_CAP and P_MAX
C17_Witness ==
  /\ PiecesExceed(total, P_CAP, N_THRESHOLD)
  /\ P_CAP < piece /\ piece < P_MAX
  /\ ~IsPowerOfTwo(SteppedUnrounded(total))

\* C18: after every completed StartFile, Write, EndFile or Finalize call, and
\* on the new hasher, the per-file partial-piece byte count and the cross-file
\* partial-piece byte count lie in 0..P-1 (a full piece is emitted and reset
\* inside Write, never left pending); each count is the number of bytes in
\* the running digest of its partial piece, and the cross-file stream emitted
\* is made of whole SHA-1 digests only.
C18_AccumulatorBounds ==
  (pc = "hasher" /\ ~hcall.active) =>
    /\ mh.pieceSize >= 1
    /\ mh.filePieceBuffer \in 0..(mh.pieceSize - 1)
    /\ Len(mh.torrentPieceBuffer) \in 0..(mh.pieceSize - 1)
    /\ Len(mh.filePieceSHA256) = mh.filePieceBuffer
    /\ mh.torrentPieceSHA1 = mh.torrentPieceBuffer
    /\ \A k \in 1..Len(GetTorrentPieces(mh)) :
         /\ GetTorrentPieces(mh)[k].alg = "sha-1"
         /\ Len(GetTorrentPieces(mh)[k].of) \in 1..mh.pieceSize

\* a Write has returned that filled and emitted a piece in both accumulators
\* and left both with a partial piece, on a hasher of piece size above 1
C18_Witness ==
  /\ Done("Write")
  /\ mh.pieceSize > 1
  /\ Len(GetTorrentPieces(mh)) > Len(GetTorrentPieces(before))
  /\ Len(mh.currentFilePieceList) > Len(before.currentFilePieceList)
  /\ mh.filePieceBuffer > 0
  /\ Len(mh.torrentPieceBuffer) > 0

\* C19: in every state of a Write, on any chunk and from any state a sequence
\* of hasher calls reaches, each loop has run at most as many iterations as it
\* has consumed bytes (every iteration consumes at least one byte) and has
\* consumed no more than the chunk; a step of the Write is always possible
\* until it returns, and when it returns each loop has consumed the chunk
\* exactly once.
C19_WriteTerminates ==
  (pc = "hasher" /\ hcall.op = "Write") =>
    /\ hcall.fileIters <= hcall.fileOffset
    /\ hcall.fileOffset <= Len(hcall.data)
    /\ hcall.torrentIters <= hcall.torrentOffset
    /\ hcall.torrentOffset <= Len(hcall.data)
    /\ hcall.active =>
         ENABLED (WriteFileIter \/ WriteTorrentIter \/ WriteReturn)
    /\ ~hcall.active =>
         /\ hcall.fileOffset = Len(hcall.data)
         /\ hcall.torrentOffset = Len(hcall.data)

\* a Write of a chunk that crosses a piece boundary has returned after more
\* than one iteration of each loop, having started in the middle of a piece
C19_Witness ==
  /\ Done("Write")
  /\ mh.pieceSize > 1
  /\ Len(hcall.data) >= mh.pieceSize
  /\ before.filePieceBuffer > 0
  /\ before.torrentPieceBuffer # << >>
  /\ hcall.fileIters > 1
  /\ hcall.torrentIters > 1

\* the file lengths the torrent records, in order: Info.Files of a directory,
\* Info.Length of a single file
TorrentLengths(t) ==
  IF isDir THEN [i \in 1..Len(t.Info.Files) |-> t.Info.Files[i].Length]
  ELSE <<t.Info.Length>>

RECURSIVE SumSeq(_, _)
SumSeq(s, n) == IF n = 0 THEN 0 ELSE SumSeq(s, n - 1) + s[n]

\* the bytes covered by the first n cross-file pieces
RECURSIVE PiecesCover(_, _)
PiecesCover(pieces, n) ==
  IF n = 0 THEN 0 ELSE PiecesCover(pieces, n - 1) + Len(pieces[n].of)

\* C20: in every completed run the two documents written agree on sizes: for
\* each file the length in the torrent equals the size in the metalink, and
\* the torrent's file lengths sum to the bytes its piece stream covers, also
\* when the bytes read from a file differ from its enumerated size.
C20_SizesAgree ==
  pc = "done" =>
    LET t == torrentOut.doc
        m == metaOut.doc
        lengths == TorrentLengths(t)
    IN  /\ Len(lengths) = Len(m.Files)
        /\ \A i \in 1..Len(lengths) : lengths[i] = m.Files[i].Size
        /\ SumSeq(lengths, Len(lengths)) = PiecesCover(t.Info.Pieces, Len(t.Info.Pieces))

=============================================================================
